---- MODULE Spec2Model ----
(***************************************************************************)
(* Model of the `command` module of unity.command_shell_diff               *)
(* (plugins/modules/command.py): the orchestration in main() and the file  *)
(* snapshot routine examine_file().                                        *)
(*                                                                         *)
(* Encoding of Python values:                                              *)
(*   None / a value x   <<>> / <<x>>                                       *)
(*   str, bytes         a sequence of one-character tokens                 *)
(*   a path             a sequence of components, "/" first when absolute  *)
(*   dict               a record; a key is present iff it is in DOMAIN     *)
(***************************************************************************)
EXTENDS Integers, Sequences, FiniteSets, TLC

VARIABLES
    pc,         \* position: "action" in the action plugin, then in main()
                \* "validate", "chdir", "gate", "before", "exec", "after",
                \* "diff", "finish", "done", "crashed"
    fs,         \* the filesystem: entry name of the root directory -> node
    check_mode, \* module.check_mode
    shell,      \* locals of main(), lines 369-376
    chdir,
    args,
    argv,
    creates,
    removes,
    modifies,
    r,          \* the result dict `r`
    path2diff,  \* the before/after data structure (line 445)
    idx,        \* position of the `for path in modifies` loop being run
    ex,         \* frame of the examine_file() call in progress
    events,     \* log of the side effects performed so far, in order
    outcome,    \* how the invocation ended: "running", "exit_json",
                \* "fail_json", or the name of an uncaught exception
    task        \* the playbook task the module is run for: its arguments as
                \* written, the filesystem the invocation found and the logs
                \* of its earlier invocations; None for the module on its own

vars == <<pc, fs, check_mode, shell, chdir, args, argv, creates, removes,
          modifies, r, path2diff, idx, ex, events, outcome, task>>

-----------------------------------------------------------------------------
(* Bounds of the model *)

\* longest watched-path list supplied in `modifies`
MaxWatched == 2
\* iterations of the symlink loop of human_readable_stat that are explored
MaxChain == 4
\* invocations of the module that one task is followed through
MaxRuns == 2

-----------------------------------------------------------------------------
(* Python values *)

None == <<>>
Some(x) == <<x>>
Last(s) == s[Len(s)]
Contains(s, x) == \E k \in 1..Len(s) : s[k] = x

\* dict lookup d[k]: a missing key raises KeyError
HasKey(d, k) == k \in DOMAIN d

-----------------------------------------------------------------------------
(* Paths and the filesystem *)

Names == {"a", "b", "c"}
Root == <<"/">>
Abs(n) == <<"/", n>>

IsAbs(p) == Len(p) > 0 /\ p[1] = "/"
Dirname(p) == IF Len(p) > 1 THEN SubSeq(p, 1, Len(p) - 1) ELSE p

\* the working directory is the root directory throughout (see Chdir)
Cwd == Root

\* os.path.abspath(path)
Abspath(p) == IF IsAbs(p) THEN p ELSE Cwd \o p

AbsentNode == [type |-> "none", bytes |-> <<>>, target |-> <<>>, entries |-> <<>>, perm |-> ""]
RegNode(b) == [type |-> "S_IFREG", bytes |-> b, target |-> <<>>, entries |-> <<>>, perm |-> "rw-r--r--"]
DirNode(es) == [type |-> "S_IFDIR", bytes |-> <<>>, target |-> <<>>, entries |-> es, perm |-> "rwxr-xr-x"]
LinkNode(t) == [type |-> "S_IFLNK", bytes |-> <<>>, target |-> t, entries |-> <<>>, perm |-> "rwxrwxrwx"]
SockNode == [type |-> "S_IFSOCK", bytes |-> <<>>, target |-> <<>>, entries |-> <<>>, perm |-> "rwxr-xr-x"]

\* the node a path names, without following a final symlink
Lookup(f, p) ==
    IF p = Root THEN DirNode(<<>>)
    ELSE IF Len(p) = 2 /\ p[1] = "/" /\ p[2] \in Names THEN f[p[2]]
    ELSE AbsentNode

Lexists(f, p) == Lookup(f, p).type # "none"

-----------------------------------------------------------------------------
(* examine_file: the helpers (lines 268-309) *)

KiB == 1024

\* x / d rendered with two decimals, as the number of hundredths
Hundredths(x, d) == (2 * 100 * x + d) \div (2 * d)

Suffixes == <<"KiB", "MiB", "GiB", "TiB", "PiB">>

RECURSIVE ScaleSize(_, _, _)
ScaleSize(st_size, k, d) ==
    IF st_size < d * KiB \/ k = Len(Suffixes)
    THEN [n |-> Hundredths(st_size, d), unit |-> Suffixes[k]]
    ELSE ScaleSize(st_size, k + 1, d * KiB)

human_readable_size(st_size) ==
    IF st_size < KiB
    THEN [n |-> st_size, unit |-> "bytes"]
    ELSE ScaleSize(st_size, 1, KiB)

func2file_type ==
    << <<"S_IFREG", "regular file">>, <<"S_IFDIR", "directory">>,
       <<"S_IFCHR", "character device">>, <<"S_IFBLK", "block device">>,
       <<"S_IFIFO", "FIFO/pipe">>, <<"S_IFLNK", "symlink">>,
       <<"S_IFSOCK", "socket">> >>

human_readable_file_type(st_mode) ==
    IF \E k \in 1..Len(func2file_type) : func2file_type[k][1] = st_mode.fmt
    THEN func2file_type[CHOOSE k \in 1..Len(func2file_type) :
                            func2file_type[k][1] = st_mode.fmt][2]
    ELSE "unknown"

\* stat.filemode(st_mode): the type character followed by the permission bits
filemode(st_mode) ==
    << CASE st_mode.fmt = "S_IFREG" -> "-"
         [] st_mode.fmt = "S_IFDIR" -> "d"
         [] st_mode.fmt = "S_IFLNK" -> "l"
         [] st_mode.fmt = "S_IFSOCK" -> "s"
         [] OTHER -> "?",
       st_mode.perm >>

\* os.stat(path, follow_symlinks=False) of a path that exists
os_stat(f, p) ==
    LET n == Lookup(f, p) IN
    [st_mode |-> [fmt |-> n.type, perm |-> n.perm],
     st_size |-> CASE n.type = "S_IFREG" -> Len(n.bytes)
                   [] n.type = "S_IFLNK" -> Len(n.target)
                   [] n.type = "S_IFDIR" -> 4 * KiB
                   [] OTHER -> 0]

\* _human_readable_stat(path), for a path that exists (os.stat raises
\* FileNotFoundError otherwise)
hr_stat(f, p) ==
    LET path_stat == os_stat(f, p) IN
    [path |-> p,
     owner |-> "root",
     group |-> "root",
     file_type |-> human_readable_file_type(path_stat.st_mode),
     mode |-> filemode(path_stat.st_mode),
     size |-> human_readable_size(path_stat.st_size)]

get_symlink_destination_absolute(f, symlink_path) ==
    LET destination_path == Lookup(f, symlink_path).target IN
    IF ~IsAbs(destination_path)
    THEN Abspath(Dirname(symlink_path) \o destination_path)
    ELSE destination_path

-----------------------------------------------------------------------------
(* examine_file: reading the content (lines 329-341) *)

\* the node open(path) reaches: the kernel follows symlinks; `fuel` bounds the
\* walk as the kernel's symlink limit does
RECURSIVE Resolve(_, _, _)
Resolve(f, p, fuel) ==
    LET n == Lookup(f, p) IN
    IF n.type # "S_IFLNK" THEN n
    ELSE IF fuel = 0 THEN [n EXCEPT !.type = "ELOOP"]
    ELSE Resolve(f, get_symlink_destination_absolute(f, p), fuel - 1)

\* text-mode read: universal newlines turn "\r\n" and "\r" into "\n"
RECURSIVE Newlines(_)
Newlines(b) ==
    IF b = <<>> THEN <<>>
    ELSE IF b[1] = "\r" /\ Len(b) > 1 /\ b[2] = "\n"
         THEN <<"\n">> \o Newlines(SubSeq(b, 3, Len(b)))
    ELSE IF b[1] = "\r" THEN <<"\n">> \o Newlines(Tail(b))
    ELSE <<b[1]>> \o Newlines(Tail(b))

\* a byte that is not valid UTF-8
BadByte == "\\xff"
Decodable(b) == ~Contains(b, BadByte)

\* hashlib.sha1(...).hexdigest(): a digest that tells the byte strings of the
\* model apart
sha1(b) == <<"sha1:">> \o b

PyStr(s) == [t |-> "str", v |-> s]
PyList(l) == [t |-> "list", v |-> l]

\* the content part of examine_file for a first stat entry of type `ft0`;
\* [raise |-> exception name] or [raise |-> "", value |-> content]
ReadContent(f, path, ft0) ==
    LET n == Resolve(f, Abspath(path), Cardinality(Names)) IN
    IF ft0 \in {"regular file", "symlink"}
    THEN CASE n.type = "S_IFREG" ->
                [raise |-> "",
                 value |-> IF Decodable(n.bytes)
                           THEN PyStr(Newlines(n.bytes))
                           ELSE PyStr(<<"content ommitted, binary file. sha1sum: ">>
                                      \o sha1(n.bytes))]
           [] n.type = "S_IFDIR" -> [raise |-> "IsADirectoryError", value |-> PyStr(<<>>)]
           [] n.type = "none" -> [raise |-> "FileNotFoundError", value |-> PyStr(<<>>)]
           [] OTHER -> [raise |-> "OSError", value |-> PyStr(<<>>)]
    ELSE IF ft0 = "directory"
    THEN [raise |-> "", value |-> PyList(Lookup(f, Abspath(path)).entries)]
    ELSE [raise |-> "", value |-> PyStr(<<"content ommitted, special file.">>)]

\* the value examine_file returns for a path that is absent (line 343)
AbsentSnapshot == [state |-> "absent", stat |-> None, contents |-> None]

\* the value examine_file returns otherwise (lines 326-341)
PresentSnapshot(chain, content) == [stat |-> chain, content |-> content]

-----------------------------------------------------------------------------
(* Inputs and the initial state *)

Truthy(o) == o # None /\ o[1] # <<>>

\* _raw_params, argv and _uses_shell as the caller may supply them
CommandInputs ==
    {[raw |-> a, argv |-> v, shell |-> FALSE] :
        a \in {None, Some(<<>>), Some(<<" ">>), Some(<<"e", " ", "h">>)},
        v \in {None, Some(<<>>), Some(<< <<"e">>, <<"h">> >>)}}
    \cup {[raw |-> Some(<<"e", " ", "h">>), argv |-> None, shell |-> TRUE],
          [raw |-> Some(<<"e", " ", "\"">>), argv |-> None, shell |-> FALSE]}

\* one command of each shape that passes the tests of lines 389-397: a raw
\* string, an argv list, a raw string for a shell, a raw string shlex rejects
ValidCommandInputs ==
    {[raw |-> Some(<<"e", " ", "h">>), argv |-> None, shell |-> FALSE],
     [raw |-> None, argv |-> Some(<< <<"e">>, <<"h">> >>), shell |-> FALSE],
     [raw |-> Some(<<"e", " ", "h">>), argv |-> None, shell |-> TRUE],
     [raw |-> Some(<<"e", " ", "\"">>), argv |-> None, shell |-> FALSE]}

ChdirInputs == {None, Some(Root), Some(Abs("nodir"))}

CreatesInputs == {None, Some(<<>>), Some(Abs("c")), Some(<<"/", "*">>)}
RemovesInputs == {None, Some(Abs("c")), Some(<<"*">>)}

WatchPaths == {Abs("a"), <<"b">>}

RECURSIVE SeqsUpTo(_, _)
SeqsUpTo(S, n) ==
    IF n = 0 THEN {<<>>}
    ELSE LET shorter == SeqsUpTo(S, n - 1) IN
         shorter \cup {Append(q, x) : q \in shorter, x \in S}

ModifiesInputs == {None} \cup {Some(q) : q \in SeqsUpTo(WatchPaths, MaxWatched)}

InitFS ==
    {[n \in Names |-> CASE n = "a" -> na [] n = "b" -> nb [] OTHER -> nc] :
        na \in {AbsentNode, RegNode(<<"x">>), LinkNode(<<"b">>)},
        nb \in {RegNode(<<"x", "\r", "\n">>), LinkNode(Abs("c")), DirNode(<<"f">>),
                 SockNode},
        nc \in {AbsentNode, LinkNode(Abs("b")), RegNode(<<BadByte>>)}}

\* line 383 with start taken when main() begins
InitResult_Stamped ==
    [changed |-> FALSE, stdout |-> [t |-> "str", v |-> <<>>],
     stderr |-> [t |-> "str", v |-> <<>>],
     rc |-> None, cmd |-> None, start |-> Some([t |-> "datetime", v |-> 0]),
     end |-> None, delta |-> None, msg |-> <<>>]

\* the result dict as initialised at line 383
InitResult ==
    [changed |-> FALSE, stdout |-> PyStr(<<>>), stderr |-> PyStr(<<>>),
     rc |-> None, cmd |-> None, start |-> None, end |-> None, delta |-> None,
     msg |-> <<>>]

EmptyDict == [k \in {} |-> TRUE]
NoCall == [phase |-> "idle", arg |-> <<>>, path |-> <<>>, output |-> <<>>,
           seen_paths |-> <<>>]

\* the state main() starts in, for parameters and a filesystem of the sets given
Started(commands, filesystems, watchlists) ==
    /\ pc = "validate"
    /\ fs \in filesystems
    /\ check_mode \in BOOLEAN
    /\ \E c \in commands : args = c.raw /\ argv = c.argv /\ shell = c.shell
    /\ chdir \in ChdirInputs
    /\ creates \in CreatesInputs
    /\ removes \in RemovesInputs
    /\ modifies \in watchlists
    /\ r = InitResult
    /\ path2diff = EmptyDict
    /\ idx = 1
    /\ ex = NoCall
    /\ events = <<>>
    /\ outcome = "running"
    /\ task = None

\* every invocation with a command that passes validation
Init == Started(ValidCommandInputs, InitFS, ModifiesInputs)

\* every shape of the command parameters, over fewer filesystems and watch lists
InitInput ==
    Started(CommandInputs,
            {f \in InitFS : f["a"] = AbsentNode /\ f["b"].type = "S_IFDIR"},
            {None, Some(<<Abs("a")>>)})

-----------------------------------------------------------------------------
(* How main() ends *)

\* module.exit_json(**rr)
exit_json(rr) ==
    /\ r' = rr
    /\ pc' = "done"
    /\ outcome' = "exit_json"

\* module.fail_json(**rr): the result is marked failed
fail_json(rr) ==
    /\ r' = [k \in DOMAIN rr \cup {"failed"} |-> IF k = "failed" THEN TRUE ELSE rr[k]]
    /\ pc' = "done"
    /\ outcome' = "fail_json"

\* an exception nothing catches
Raise(e) ==
    /\ pc' = "crashed"
    /\ outcome' = e

-----------------------------------------------------------------------------
(* Validation and normalisation of the command (lines 385-407) *)

Whitespace == {" ", "\t", "\n"}

\* args.strip() == ''
IsBlank(str) == \A k \in 1..Len(str) : str[k] \in Whitespace

\* shlex.split(str): words separated by whitespace, double quotes group;
\* [ok |-> FALSE] stands for ValueError("No closing quotation")
RECURSIVE ShlexScan(_, _, _, _, _)
ShlexScan(str, cur, started, quoted, out) ==
    IF str = <<>>
    THEN IF quoted THEN [ok |-> FALSE, words |-> out]
         ELSE [ok |-> TRUE, words |-> IF started THEN Append(out, cur) ELSE out]
    ELSE LET ch == Head(str) IN
         IF ch = "\""
         THEN ShlexScan(Tail(str), cur, TRUE, ~quoted, out)
         ELSE IF ch \in Whitespace /\ ~quoted
         THEN ShlexScan(Tail(str), <<>>, FALSE, FALSE,
                        IF started THEN Append(out, cur) ELSE out)
         ELSE ShlexScan(Tail(str), Append(cur, ch), TRUE, quoted, out)

shlex_split(str) == ShlexScan(str, <<>>, FALSE, FALSE, <<>>)

\* line 389 without the test for a blank string
NoCommandGiven_NoBlankTest == ~Truthy(args) /\ ~Truthy(argv)

NoCommandGiven == (~Truthy(args) \/ IsBlank(args[1])) /\ ~Truthy(argv)
BothGiven == Truthy(args) /\ Truthy(argv)

\* `args` once lines 399-405 have run: a list of words, or the raw string
\* when a shell is to interpret it
NormalisedArgs ==
    IF Truthy(args)
    THEN IF ~shell THEN PyList(shlex_split(args[1]).words) ELSE PyStr(args[1])
    ELSE PyList(argv[1])

Validate ==
    /\ pc = "validate"
    /\ IF NoCommandGiven
       THEN /\ fail_json([r EXCEPT !.rc = Some(256), !.msg = <<"no command given">>])
            /\ UNCHANGED <<args, argv>>
       ELSE IF BothGiven
       THEN /\ fail_json([r EXCEPT !.rc = Some(256),
                            !.msg = <<"only command or argv can be given, not both">>])
            /\ UNCHANGED <<args, argv>>
       ELSE IF ~shell /\ Truthy(args) /\ ~shlex_split(args[1]).ok
       THEN /\ Raise("ValueError")
            /\ UNCHANGED <<args, argv, r>>
       ELSE /\ args' = Some(NormalisedArgs)
            /\ argv' = None
            /\ r' = [r EXCEPT !.cmd = Some(NormalisedArgs)]
            /\ pc' = "chdir"
            /\ UNCHANGED outcome
    /\ UNCHANGED <<task, fs, check_mode, shell, chdir, creates, removes, modifies,
                   path2diff, idx, ex, events>>

-----------------------------------------------------------------------------
(* Changing the working directory (lines 409-416) *)

\* os.chdir never failing
IsDirectory_Always(f, p) == TRUE

\* os.chdir(p) succeeds
IsDirectory(f, p) == Resolve(f, p, Cardinality(Names)).type = "S_IFDIR"

Chdir ==
    /\ pc = "chdir"
    /\ IF Truthy(chdir)
       THEN /\ events' = Append(events, <<"chdir">>)
            /\ IF IsDirectory(fs, Abspath(chdir[1]))
               THEN /\ pc' = "gate"
                    /\ UNCHANGED <<r, outcome>>
               ELSE fail_json([r EXCEPT !.msg =
                        <<"Unable to change directory before execution: ",
                          "[Errno 2] No such file or directory: ">> \o chdir[1]])
       ELSE /\ pc' = "gate"
            /\ UNCHANGED <<r, outcome, events>>
    /\ chdir' = None
    /\ UNCHANGED <<task, fs, check_mode, shell, args, argv, creates, removes, modifies,
                   path2diff, idx, ex>>

-----------------------------------------------------------------------------
(* The idempotency gate (lines 418-442) *)

\* glob.glob(pattern): a literal pattern matches when the path exists (a
\* dangling symlink included), "*" as last component matches every entry of
\* the directory
glob(f, pattern) ==
    LET full == Abspath(pattern) IN
    IF pattern = <<>> THEN {}
    ELSE IF Last(full) = "*"
    THEN {Dirname(full) \o <<n>> : n \in {m \in Names : Lexists(f, Dirname(full) \o <<m>>)}}
    ELSE IF Lexists(f, full) THEN {full} ELSE {}

Shoulda == IF check_mode THEN "Would" ELSE "Did"

\* line 426 with the test inverted
CreatesTriggers_Inverted == Truthy(creates) /\ glob(fs, creates[1]) = {}

CreatesTriggers == Truthy(creates) /\ glob(fs, creates[1]) # {}

\* `r` after the creates check (lines 425-430)
AfterCreates(rr) ==
    IF CreatesTriggers
    THEN [rr EXCEPT
            !.msg = <<Shoulda, " not run command since '">> \o creates[1] \o <<"' exists">>,
            !.stdout = PyStr(<<"skipped, since ">> \o creates[1] \o <<" exists">>),
            !.rc = Some(0)]
    ELSE rr

\* line 432 without the test of r['msg']
RemovesEvaluated_Always(rr) == Truthy(removes)

\* line 432
RemovesEvaluated(rr) == rr.msg = <<>> /\ Truthy(removes)

\* lines 433-437 with the `not` of line 434 lost
AfterRemoves_Inverted(rr) ==
    IF RemovesEvaluated(rr) /\ glob(fs, removes[1]) # {}
    THEN [rr EXCEPT
            !.msg = <<Shoulda, " not run command since '">> \o removes[1]
                    \o <<"' does not exist">>,
            !.stdout = PyStr(<<"skipped, since ">> \o removes[1] \o <<" does not exist">>),
            !.rc = Some(0)]
    ELSE rr

\* `r` after the removes check (lines 433-437)
AfterRemoves(rr) ==
    IF RemovesEvaluated(rr) /\ glob(fs, removes[1]) = {}
    THEN [rr EXCEPT
            !.msg = <<Shoulda, " not run command since '">> \o removes[1]
                    \o <<"' does not exist">>,
            !.stdout = PyStr(<<"skipped, since ">> \o removes[1] \o <<" does not exist">>),
            !.rc = Some(0)]
    ELSE rr

\* modifies is not None and len(modifies) > 0
Watching == modifies # None /\ Len(modifies[1]) > 0

GateEvents ==
    (IF Truthy(creates) THEN << <<"glob", "creates">> >> ELSE <<>>)
    \o (IF RemovesEvaluated(AfterCreates(r)) THEN << <<"glob", "removes">> >> ELSE <<>>)

\* the gate without the return of lines 439-440
Gate_NoReturn ==
    /\ pc = "gate"
    /\ events' = events \o GateEvents
    /\ r' = AfterRemoves(AfterCreates(r))
    /\ pc' = IF Watching THEN "before" ELSE "exec"
    /\ UNCHANGED <<task, fs, check_mode, shell, chdir, args, argv, creates, removes,
                   modifies, path2diff, idx, ex, outcome>>

Gate ==
    /\ pc = "gate"
    /\ events' = events \o GateEvents
    /\ LET gated == AfterRemoves(AfterCreates(r)) IN
       IF gated.msg # <<>>
       THEN exit_json(gated)
       ELSE /\ r' = [gated EXCEPT !.changed = TRUE]
            /\ pc' = IF Watching THEN "before" ELSE "exec"
            /\ UNCHANGED outcome
    /\ UNCHANGED <<task, fs, check_mode, shell, chdir, args, argv, creates, removes,
                   modifies, path2diff, idx, ex>>

-----------------------------------------------------------------------------
(* examine_file (lines 266-344), one call at a time *)

\* where main() continues once the loop over `modifies` it is in has ended
AfterLoop == IF pc = "before" THEN "exec" ELSE "diff"

\* examine_file(path) returns `snapshot` to the loop of main() that called it
\* (line 449 or line 472)
Return(path, snapshot) ==
    /\ path2diff' =
         LET old == IF HasKey(path2diff, path) THEN path2diff[path]
                    ELSE [before |-> EmptyDict, after |-> EmptyDict]
             new == IF pc = "before"
                    THEN [before |-> snapshot, after |-> EmptyDict]
                    ELSE [old EXCEPT !.after = snapshot]
         IN [q \in DOMAIN path2diff \cup {path} |->
                IF q = path THEN new ELSE path2diff[q]]
    /\ ex' = NoCall
    /\ IF idx < Len(modifies[1])
       THEN idx' = idx + 1 /\ pc' = pc
       ELSE idx' = 1 /\ pc' = AfterLoop
    /\ UNCHANGED outcome

\* every exception handled as FileNotFoundError is at lines 342-343
RaiseFromExamine_Swallowed(e) == Return(ex.arg, AbsentSnapshot)

\* the exception leaves examine_file and main()
RaiseFromExamine(e) ==
    /\ Raise(e)
    /\ ex' = [ex EXCEPT !.phase = "raised"]
    /\ UNCHANGED <<path2diff, idx>>

\* the call examine_file(path) up to the first stat (lines 326-328, 316-318)
ExamineCall(path) ==
    LET abs == Abspath(path) IN
    IF ~Lexists(fs, abs)
    THEN Return(path, AbsentSnapshot)
    ELSE /\ ex' = [phase |-> "loop", arg |-> path, path |-> abs,
                   output |-> <<hr_stat(fs, abs)>>, seen_paths |-> <<abs>>]
         /\ UNCHANGED <<pc, path2diff, idx, outcome>>

\* `path in seen_paths` (line 321)
SeenBefore(frame, path) == Contains(frame.seen_paths, path)

\* the frame after one more entry is appended to the chain (line 323);
\* seen_paths is not extended anywhere in the loop
Follow(frame, path) ==
    [frame EXCEPT !.path = path, !.output = Append(@, hr_stat(fs, path))]

\* line 319 as an `if`: the chain is followed one link at most
Traversing_Once(frame) ==
    Last(frame.output).file_type = "symlink" /\ Len(frame.output) < 2

\* the condition of the loop (line 319)
Traversing(frame) == Last(frame.output).file_type = "symlink"

\* one iteration of `while output[-1]["file_type"] == "symlink"` (lines 319-323)
ExamineLoop ==
    /\ pc \in {"before", "after"}
    /\ ex.phase = "loop"
    /\ Traversing(ex)
    /\ Len(ex.output) < MaxChain
    /\ LET path == get_symlink_destination_absolute(fs, ex.path) IN
       IF SeenBefore(ex, path)
       THEN RaiseFromExamine("RecursionError")
       ELSE IF ~Lexists(fs, path)
       THEN Return(ex.arg, AbsentSnapshot)
       ELSE /\ ex' = Follow(ex, path)
            /\ UNCHANGED <<pc, path2diff, idx, outcome>>
    /\ UNCHANGED <<task, fs, check_mode, shell, chdir, args, argv, creates, removes,
                   modifies, r, events>>

\* the loop has ended: the content is read and the snapshot returned
\* (lines 324, 329-344)
ExamineRead ==
    /\ pc \in {"before", "after"}
    /\ ex.phase = "loop"
    /\ ~Traversing(ex)
    /\ LET c == ReadContent(fs, ex.arg, ex.output[1].file_type) IN
       IF c.raise = ""
       THEN Return(ex.arg, PresentSnapshot(ex.output, c.value))
       ELSE IF c.raise = "FileNotFoundError"
       THEN Return(ex.arg, AbsentSnapshot)
       ELSE RaiseFromExamine(c.raise)
    /\ UNCHANGED <<task, fs, check_mode, shell, chdir, args, argv, creates, removes,
                   modifies, r, events>>

\* one iteration of the loop at lines 447-449 begins
Before ==
    /\ pc = "before"
    /\ ex.phase = "idle"
    /\ events' = Append(events, <<"examine", "before">> \o modifies[1][idx])
    /\ ExamineCall(modifies[1][idx])
    /\ UNCHANGED <<task, fs, check_mode, shell, chdir, args, argv, creates, removes,
                   modifies, r>>

\* the after loop without line 470
After_KeepsChanged ==
    /\ pc = "after"
    /\ ex.phase = "idle"
    /\ r' = IF idx = 1
            THEN [k \in DOMAIN r \cup {"diff"} |->
                    CASE k = "diff" -> <<>> [] OTHER -> r[k]]
            ELSE r
    /\ events' = Append(events, <<"examine", "after">> \o modifies[1][idx])
    /\ ExamineCall(modifies[1][idx])
    /\ UNCHANGED <<task, fs, check_mode, shell, chdir, args, argv, creates, removes,
                   modifies>>

\* lines 469-470, then one iteration of the loop at lines 471-472 begins
After ==
    /\ pc = "after"
    /\ ex.phase = "idle"
    /\ r' = IF idx = 1
            THEN [k \in DOMAIN r \cup {"diff"} |->
                    CASE k = "diff" -> <<>> [] k = "changed" -> FALSE [] OTHER -> r[k]]
            ELSE r
    /\ events' = Append(events, <<"examine", "after">> \o modifies[1][idx])
    /\ ExamineCall(modifies[1][idx])
    /\ UNCHANGED <<task, fs, check_mode, shell, chdir, args, argv, creates, removes,
                   modifies>>

-----------------------------------------------------------------------------
(* Running the command, or not (lines 451-465) *)

PyBytes(b) == [t |-> "bytes", v |-> b]
datetime(n) == [t |-> "datetime", v |-> n]

\* what module.run_command may hand back: rc, stdout, stderr
CommandResults ==
    {[rc |-> 0, stdout |-> <<"o", "\n">>, stderr |-> <<>>],
     [rc |-> 1, stdout |-> <<>>, stderr |-> <<"e", "\r", "\n">>]}

\* the entries a command (or anything else on the host) writes or removes
Written == {"a", "b"}
\* the entries it replaces by a directory
Replaced == {"b"}

\* the filesystems a command may leave behind
Effects(f) ==
    {f}
    \cup {[f EXCEPT ![n] = RegNode(<<"y">>)] : n \in {m \in Written : f[m].type \in {"none", "S_IFREG"}}}
    \cup {[f EXCEPT ![n] = AbsentNode] : n \in Written}
    \cup {[f EXCEPT ![n] = DirNode(<<>>)] : n \in {m \in Replaced : f[m].type = "S_IFREG"}}

\* line 468 with the after snapshots and the comparison left out
AfterExec_NoAfter == "finish"

AfterExec == IF Watching THEN "after" ELSE "finish"

\* line 452 without the test
ShouldRun_Always == TRUE

\* `if not module.check_mode` (line 452)
ShouldRun == ~check_mode

Run ==
    /\ pc = "exec"
    /\ ShouldRun
    /\ \E res \in CommandResults, after \in Effects(fs) :
        /\ fs' = after
        /\ r' = [r EXCEPT !.start = Some(datetime(Len(events) + 1)),
                          !.rc = Some(res.rc),
                          !.stdout = PyBytes(res.stdout),
                          !.stderr = PyBytes(res.stderr),
                          !.end = Some(datetime(Len(events) + 3))]
    /\ events' = events \o << <<"now">>, <<"run_command">>, <<"now">> >>
    /\ pc' = AfterExec
    /\ UNCHANGED <<task, check_mode, shell, chdir, args, argv, creates, removes,
                   modifies, path2diff, idx, ex, outcome>>

\* lines 459-465 without line 463
Simulated_NoSkipped(rr) ==
    LET told == [rr EXCEPT !.rc = Some(0),
                           !.msg = <<"Command would have run if not in check mode">>] IN
    IF creates = None /\ removes = None
    THEN [told EXCEPT !.changed = FALSE]
    ELSE told

\* lines 459-465 without line 465
Simulated_KeepsChanged(rr) ==
    LET told == [rr EXCEPT !.rc = Some(0),
                           !.msg = <<"Command would have run if not in check mode">>] IN
    IF creates = None /\ removes = None
    THEN [k \in DOMAIN told \cup {"skipped"} |->
            IF k = "skipped" THEN TRUE ELSE told[k]]
    ELSE told

\* the check-mode branch (lines 459-465)
Simulated(rr) ==
    LET told == [rr EXCEPT !.rc = Some(0),
                           !.msg = <<"Command would have run if not in check mode">>] IN
    IF creates = None /\ removes = None
    THEN [k \in DOMAIN told \cup {"skipped"} |->
            CASE k = "skipped" -> TRUE [] k = "changed" -> FALSE [] OTHER -> told[k]]
    ELSE told

Simulate ==
    /\ pc = "exec"
    /\ ~ShouldRun
    /\ r' = Simulated(r)
    /\ pc' = AfterExec
    /\ UNCHANGED <<task, fs, check_mode, shell, chdir, args, argv, creates, removes,
                   modifies, path2diff, idx, ex, events, outcome>>

\* something else on the host changes a file between the two snapshots of a
\* check-mode run (in a normal run Effects already ranges over such changes)
EnvChange ==
    /\ pc = "exec"
    /\ check_mode
    /\ Watching
    /\ fs' \in Effects(fs) \ {fs}
    /\ UNCHANGED <<task, pc, check_mode, shell, chdir, args, argv, creates, removes,
                   modifies, r, path2diff, idx, ex, events, outcome>>

-----------------------------------------------------------------------------
(* Comparing the snapshots (lines 473-483) *)

\* == on two dicts
DictEq(d1, d2) == DOMAIN d1 = DOMAIN d2 /\ d1 = d2

\* d[k] = v
WithKey(d, k, v) == [x \in DOMAIN d \cup {k} |-> IF x = k THEN v ELSE d[x]]

\* lines 477-479, for an entry whose two snapshots both have a "state" key
Collapse(new_diff) ==
    IF new_diff.before.state # new_diff.after.state
    THEN [before |-> [state |-> new_diff.before.state],
          after |-> [state |-> new_diff.after.state]]
    ELSE new_diff

\* line 481
Tagged(new_diff, path) ==
    [before |-> WithKey(new_diff.before, "path", path),
     after |-> WithKey(new_diff.after, "path", path)]

\* the loop at lines 473-483 from its k-th iteration on; `raise` names the
\* exception that ends it early
RECURSIVE DiffLoop(_, _, _)
DiffLoop(k, p2d, rr) ==
    IF k > Len(modifies[1])
    THEN [raise |-> "", path2diff |-> p2d, r |-> rr]
    ELSE LET path == modifies[1][k]
             new_diff == p2d[path] IN
         IF DictEq(new_diff.before, new_diff.after)
         THEN DiffLoop(k + 1, p2d, rr)
         ELSE IF ~HasKey(new_diff.before, "state") \/ ~HasKey(new_diff.after, "state")
         THEN [raise |-> "KeyError", path2diff |-> p2d, r |-> rr]
         ELSE LET record == Tagged(Collapse(new_diff), path) IN
              DiffLoop(k + 1, [p2d EXCEPT ![path] = record],
                       [rr EXCEPT !.diff = Append(@, record), !.changed = TRUE])

Diff ==
    /\ pc = "diff"
    /\ LET done == DiffLoop(1, path2diff, r) IN
       /\ path2diff' = done.path2diff
       /\ r' = done.r
       /\ IF done.raise = ""
          THEN pc' = "finish" /\ UNCHANGED outcome
          ELSE Raise(done.raise)
    /\ UNCHANGED <<task, fs, check_mode, shell, chdir, args, argv, creates, removes,
                   modifies, idx, ex, events>>

-----------------------------------------------------------------------------
(* Assembling the result (lines 485-500) *)

\* to_text(x)
to_text(x) == [x EXCEPT !.t = "str"]

\* str.rstrip("\r\n")
RECURSIVE rstrip(_)
rstrip(str) ==
    IF str # <<>> /\ Last(str) \in {"\r", "\n"}
    THEN rstrip(SubSeq(str, 1, Len(str) - 1))
    ELSE str

\* lines 486-490 without line 488
Timed_NoDelta(rr) ==
    IF rr.start # None /\ rr.end # None
    THEN [rr EXCEPT !.end = Some(to_text(rr.end[1])),
                    !.start = Some(to_text(rr.start[1]))]
    ELSE rr

\* lines 486-490
Timed(rr) ==
    IF rr.start # None /\ rr.end # None
    THEN [rr EXCEPT !.delta = Some(to_text([t |-> "timedelta",
                                            v |-> rr.end[1].v - rr.start[1].v])),
                    !.end = Some(to_text(rr.end[1])),
                    !.start = Some(to_text(rr.start[1]))]
    ELSE rr

\* lines 492-494
Stripped(rr, strip) ==
    IF strip
    THEN [rr EXCEPT !.stdout = PyStr(rstrip(to_text(rr.stdout).v)),
                    !.stderr = PyStr(rstrip(to_text(rr.stderr).v))]
    ELSE rr

\* strip_empty_ends is read only here
Finish ==
    /\ pc = "finish"
    /\ \E strip \in BOOLEAN :
        LET final == Stripped(Timed(r), strip) IN
        IF final.rc # Some(0)
        THEN fail_json([final EXCEPT !.msg = <<"non-zero return code">>])
        ELSE exit_json(final)
    /\ UNCHANGED <<task, fs, check_mode, shell, chdir, args, argv, creates, removes,
                   modifies, path2diff, idx, ex, events>>

-----------------------------------------------------------------------------

Next ==
    \/ Validate
    \/ Chdir
    \/ Gate
    \/ Before
    \/ ExamineLoop
    \/ ExamineRead
    \/ Run
    \/ Simulate
    \/ EnvChange
    \/ After
    \/ Diff
    \/ Finish

Spec == Init /\ [][Next]_vars

\* main() up to the end of the gate
NextInput ==
    \/ Validate
    \/ Chdir
    \/ Gate

SpecInput == InitInput /\ [][NextInput]_vars

-----------------------------------------------------------------------------
(* The module as a playbook task runs it: through the action plugin          *)
(* (plugins/action/command.py), and once more with the same arguments        *)

\* ansible.parsing.splitter.split_args(cmd), for a string free of quotes,
\* braces and newlines: the words between the blanks
split_args(str) == shlex_split(str).words

\* the arguments a task may be written with: cmd, the free-form string
\* (_raw_params), argv and _uses_shell
TaskInputs ==
    {[cmd |-> c, raw |-> a, argv |-> v, shell |-> s] :
        c \in {None, Some(<<"e", " ", "h">>)},
        a \in {None, Some(<<"e", " ", "h">>)},
        v \in {None, Some(<< <<"x">> >>)},
        s \in BOOLEAN}

TaskFS ==
    {[n \in Names |-> CASE n = "a" -> na [] n = "b" -> nb [] OTHER -> nc] :
        na \in {AbsentNode, LinkNode(<<"b">>)},
        nb \in {RegNode(<<"x", "\r", "\n">>), LinkNode(Abs("c")), DirNode(<<"f">>)},
        nc \in {AbsentNode, RegNode(<<BadByte>>)}}

TaskCreates == {None, Some(Abs("a")), Some(Abs("c"))}
TaskRemoves == {None, Some(Abs("c"))}
TaskModifies == {None, Some(<<Abs("a")>>), Some(<< <<"b">> >>)}

\* the task record: the arguments as written, the filesystem the invocation
\* in progress found when it began, the logs of the invocations before it
Task(c, found, earlier) ==
    Some([cmd |-> c.cmd, raw |-> c.raw, argv |-> c.argv, found |-> found,
          earlier |-> earlier])

\* ActionModule.run() is about to be called for the first time
InitTask ==
    /\ pc = "action"
    /\ fs \in TaskFS
    /\ check_mode \in BOOLEAN
    /\ \E c \in TaskInputs :
        /\ args = c.raw /\ argv = c.argv /\ shell = c.shell
        /\ task = Task(c, fs, <<>>)
    /\ chdir = None
    /\ creates \in TaskCreates
    /\ removes \in TaskRemoves
    /\ modifies \in TaskModifies
    /\ r = InitResult
    /\ path2diff = EmptyDict
    /\ idx = 1
    /\ ex = NoCall
    /\ events = <<>>
    /\ outcome = "running"

\* ActionModule.run() up to _execute_module (lines 37-43): a `cmd` argument
\* becomes the raw string of a shell task and the argv of any other task
ActionRun ==
    /\ pc = "action"
    /\ IF task[1].cmd # None
       THEN IF shell
            THEN args' = task[1].cmd /\ argv' = argv
            ELSE argv' = Some(split_args(task[1].cmd[1])) /\ args' = args
       ELSE UNCHANGED <<args, argv>>
    /\ pc' = "validate"
    /\ UNCHANGED <<task, fs, check_mode, shell, chdir, creates, removes, modifies,
                   r, path2diff, idx, ex, events, outcome>>

\* the task is run again with the arguments it was written with, on the
\* filesystem the invocation before left behind
Rerun ==
    /\ pc = "done"
    /\ task # None
    /\ Len(task[1].earlier) < MaxRuns - 1
    /\ task' = Task(task[1], fs, Append(task[1].earlier, events))
    /\ pc' = "action"
    /\ args' = task[1].raw
    /\ argv' = task[1].argv
    /\ r' = InitResult
    /\ path2diff' = EmptyDict
    /\ idx' = 1
    /\ ex' = NoCall
    /\ events' = <<>>
    /\ outcome' = "running"
    /\ UNCHANGED <<fs, check_mode, shell, chdir, creates, removes, modifies>>

NextTask ==
    \/ ActionRun
    \/ Validate
    \/ Chdir
    \/ Gate
    \/ Before
    \/ ExamineLoop
    \/ ExamineRead
    \/ Run
    \/ Simulate
    \/ EnvChange
    \/ After
    \/ Diff
    \/ Finish
    \/ Rerun

SpecTask == InitTask /\ [][NextTask]_vars

-----------------------------------------------------------------------------
(* Vocabulary of the properties *)

Launched(log) == \E k \in 1..Len(log) : log[k] = <<"run_command">>
Snapshotted(log) == \E k \in 1..Len(log) : log[k][1] = "examine"
Globbed(log) == \E k \in 1..Len(log) : log[k][1] = "glob"
ChangedDir(log) == \E k \in 1..Len(log) : log[k] = <<"chdir">>

\* the string `msg` mentions `part`
Mentions(msg, part) ==
    \E k \in 1..Len(msg) :
        k + Len(part) - 1 <= Len(msg) /\ SubSeq(msg, k, k + Len(part) - 1) = part

IsSkipped(rr) == HasKey(rr, "skipped") /\ rr.skipped
IsFailed(rr) == HasKey(rr, "failed") /\ rr.failed

\* a result returned before the gate was reached: a validation failure or a
\* failed directory change
EndedBeforeGate ==
    /\ pc = "done"
    /\ outcome = "fail_json"
    /\ r.msg # <<>>
    /\ r.msg[1] \in {"no command given",
                     "only command or argv can be given, not both",
                     "Unable to change directory before execution: "}

\* a result returned by an invocation that went through the check-mode
\* branch of lines 458-465
SimulatedResult ==
    /\ check_mode
    /\ pc = "done"
    /\ ~EndedBeforeGate
    /\ ~Mentions(r.msg, <<" not run command since '">>)

-----------------------------------------------------------------------------
(* C1 *)

\* the command forms as supplied: none given, or both given
InvalidCommand ==
    \/ (args = None \/ IsBlank(args[1])) /\ (argv = None \/ argv[1] = <<>>)
    \/ Truthy(args) /\ Truthy(argv)

\* C1: an invocation that gives no command (raw string missing or blank and
\* argv missing or empty), or gives both forms, ends in a validation failure
\* with rc 256 and changed false, before any directory change, glob
\* evaluation, snapshot or process launch, and with the filesystem untouched.
C1_ValidationFailure ==
    [][(pc = "validate" /\ InvalidCommand)
        => /\ pc' = "done"
           /\ outcome' = "fail_json"
           /\ IsFailed(r')
           /\ r'.rc = Some(256)
           /\ r'.changed = FALSE
           /\ events' = <<>>
           /\ fs' = fs]_vars

C1_Witness ==
    /\ pc = "done"
    /\ r.rc = Some(256)
    /\ Truthy(args) /\ Truthy(argv)
    /\ Truthy(chdir) /\ Truthy(creates) /\ Watching

-----------------------------------------------------------------------------
(* C2, C3 *)

QuietLog(log) == ~Launched(log) /\ ~Snapshotted(log)

\* C2: when the gate is reached and the creates pattern has a match, the
\* invocation returns a successful result with changed false, rc 0 and a
\* message naming the pattern, and has taken no snapshot and launched nothing.
C2_CreatesSkips ==
    [][(pc = "gate" /\ Truthy(creates) /\ glob(fs, creates[1]) # {})
        => /\ pc' = "done"
           /\ outcome' = "exit_json"
           /\ ~IsFailed(r')
           /\ r'.changed = FALSE
           /\ r'.rc = Some(0)
           /\ Mentions(r'.msg, creates[1] \o <<"' exists">>)
           /\ QuietLog(events')]_vars

C2_Witness ==
    /\ pc = "done"
    /\ outcome = "exit_json"
    /\ Mentions(r.msg, <<"' exists">>)
    /\ Watching
    /\ ~check_mode

\* C3: when the gate is reached, the creates guard does not trigger and the
\* removes pattern has no match, the invocation returns a successful result
\* with changed false, rc 0 and the "does not exist" message, and has taken
\* no snapshot and launched nothing.
C3_RemovesSkips ==
    [][(/\ pc = "gate"
        /\ ~(Truthy(creates) /\ glob(fs, creates[1]) # {})
        /\ Truthy(removes) /\ glob(fs, removes[1]) = {})
        => /\ pc' = "done"
           /\ outcome' = "exit_json"
           /\ ~IsFailed(r')
           /\ r'.changed = FALSE
           /\ r'.rc = Some(0)
           /\ Mentions(r'.msg, removes[1] \o <<"' does not exist">>)
           /\ QuietLog(events')]_vars

C3_Witness ==
    /\ pc = "done"
    /\ outcome = "exit_json"
    /\ Mentions(r.msg, <<"' does not exist">>)
    /\ Truthy(creates)
    /\ Watching
    /\ ~check_mode

-----------------------------------------------------------------------------
(* C4 *)

ChainPaths(frame) == [k \in 1..Len(frame.output) |-> frame.output[k].path]
NoRepeat(q) == \A j, k \in 1..Len(q) : j # k => q[j] # q[k]

\* C4: a traversal that comes to a path it has already visited raises the
\* cycle error there and then, wherever on the chain the cycle closes; so no
\* chain under construction ever holds the same path twice.
C4_CycleRaises == NoRepeat(ChainPaths(ex))

-----------------------------------------------------------------------------
(* C5, C6 *)

\* the loop of lines 473-483 has been entered and left
DiffStepLeft ==
    \/ pc = "finish" /\ HasKey(r, "diff")
    \/ pc = "done" /\ HasKey(r, "diff")
    \/ pc = "crashed" /\ outcome = "KeyError"

Watched == {modifies[1][k] : k \in 1..Len(modifies[1])}
RecordsFor(path) == {k \in 1..Len(r.diff) : r.diff[k].before.path = path}
Differs(path) == ~DictEq(path2diff[path].before, path2diff[path].after)

\* C5: an invocation with watched paths that reaches the diff step returns a
\* result holding exactly one DiffRecord for each watched path whose two
\* snapshots differ and none for the others, with changed true exactly when
\* a DiffRecord is present.
C5_OneRecordPerChangedPath ==
    DiffStepLeft =>
        /\ pc # "crashed"
        /\ r.changed <=> r.diff # <<>>
        /\ \A path \in Watched :
              Cardinality(RecordsFor(path)) = IF Differs(path) THEN 1 ELSE 0

IsAbsent(snapshot) == HasKey(snapshot, "state") /\ snapshot.state = "absent"
IsRegular(snapshot) ==
    /\ HasKey(snapshot, "stat")
    /\ snapshot.stat # None
    /\ snapshot.stat[1].file_type = "regular file"

PresenceChanged(path) ==
    \/ IsAbsent(path2diff[path].before) /\ IsRegular(path2diff[path].after)
    \/ IsRegular(path2diff[path].before) /\ IsAbsent(path2diff[path].after)

\* C6: when a watched path is absent in one snapshot and a regular file in
\* the other, the invocation returns a DiffRecord for it whose before and
\* after hold the keys state and path and nothing else.
C6_PresenceChangeCollapsed ==
    DiffStepLeft =>
        \A path \in Watched :
            PresenceChanged(path) =>
                /\ pc # "crashed"
                /\ \E k \in RecordsFor(path) :
                      /\ DOMAIN r.diff[k].before = {"state", "path"}
                      /\ DOMAIN r.diff[k].after = {"state", "path"}

-----------------------------------------------------------------------------
(* C7, C8, C9, C10 *)

\* C7: in check mode the program is never launched, whatever the guards and
\* the watched paths, and once the check-mode branch has been taken the
\* return code is 0, in the result returned as well.
C7_CheckModeNeverLaunches ==
    check_mode =>
        /\ ~Launched(events)
        /\ (pc \in {"after", "diff", "finish"} \/ SimulatedResult) => r.rc = Some(0)

C7_Witness ==
    /\ SimulatedResult
    /\ Watching
    /\ Truthy(creates)
    /\ Truthy(removes)

\* C8: a check-mode invocation with neither creates nor removes configured
\* that reaches the execution step returns a result with changed false and
\* skipped true, and no process was launched.
C8_CheckModeWithoutGuardsSkips ==
    (SimulatedResult /\ creates = None /\ removes = None) =>
        /\ r.changed = FALSE
        /\ IsSkipped(r)
        /\ ~Launched(events)

C8_Witness ==
    /\ SimulatedResult
    /\ creates = None /\ removes = None
    /\ Watching

\* C9: a check-mode invocation with creates or removes configured that the
\* gate lets through returns a result with changed true and without skipped,
\* with or without watched paths.
C9_CheckModeWithGuardsChanged ==
    (SimulatedResult /\ (creates # None \/ removes # None)) =>
        /\ r.changed = TRUE
        /\ ~HasKey(r, "skipped")

\* C10: no returned result has skipped true together with changed true.
C10_SkippedExcludesChanged ==
    (pc = "done") => ~(IsSkipped(r) /\ r.changed)

C10_Witness ==
    /\ pc = "done"
    /\ IsSkipped(r)
    /\ Watching
    /\ Snapshotted(events)

-----------------------------------------------------------------------------
(* C11 *)

-----------------------------------------------------------------------------
(* C13, C14, C15 *)

GateSkipped == Mentions(r.msg, <<" not run command since '">>)

\* C13 as stated: a before snapshot is taken only in an invocation with
\* watched paths that will launch the program, so never in check mode and
\* never when the gate skips.
C13_SnapshotOnlyWhenLaunching ==
    Snapshotted(events) => Watching /\ ~check_mode /\ ~GateSkipped

\* C13 as amended: a before snapshot is taken only in an invocation with
\* watched paths that the gate lets through; none is taken when validation
\* or the directory change fails or the gate skips. A check-mode invocation
\* that passes the gate takes its snapshots although it launches nothing.
C13_SnapshotOnlyPastGate ==
    /\ Snapshotted(events) =>
          /\ Watching
          /\ pc \notin {"action", "validate", "chdir", "gate"}
          /\ ~EndedBeforeGate
          /\ ~GateSkipped
    /\ (pc = "exec" /\ Watching) =>
          \A k \in 1..Len(modifies[1]) :
              events[Len(events) - Len(modifies[1]) + k]
                  = <<"examine", "before">> \o modifies[1][k]

C13_Witness ==
    /\ check_mode
    /\ pc = "done"
    /\ Snapshotted(events)
    /\ ~Launched(events)
    /\ Truthy(removes)

\* C14: when the gate is reached with a creates pattern that has a match and
\* a removes pattern that has none, the skip reported is the creates one, in
\* msg and in stdout, and the removes pattern is not globbed.
C14_CreatesBeforeRemoves ==
    [][(/\ pc = "gate"
        /\ Truthy(creates) /\ glob(fs, creates[1]) # {}
        /\ Truthy(removes) /\ glob(fs, removes[1]) = {})
        => /\ pc' = "done"
           /\ r'.msg = <<Shoulda, " not run command since '">> \o creates[1]
                        \o <<"' exists">>
           /\ r'.stdout = PyStr(<<"skipped, since ">> \o creates[1] \o <<" exists">>)
           /\ ~Mentions(r'.msg, <<"does not exist">>)
           /\ events' = Append(events, <<"glob", "creates">>)]_vars

C14_Witness ==
    /\ pc = "done"
    /\ Mentions(r.msg, <<"' exists">>)
    /\ Truthy(removes)
    /\ glob(fs, removes[1]) = {}
    /\ Globbed(events)

\* C15: when a working directory is given and changing into it fails, the
\* invocation returns a failure whose message reports the error of the
\* directory change, and it globs nothing, snapshots nothing and launches
\* nothing.
C15_ChdirFailureAborts ==
    [][(/\ pc = "chdir"
        /\ Truthy(chdir)
        /\ Resolve(fs, Abspath(chdir[1]), Cardinality(Names)).type # "S_IFDIR")
        => /\ pc' = "done"
           /\ outcome' = "fail_json"
           /\ IsFailed(r')
           /\ r'.msg[1] = "Unable to change directory before execution: "
           /\ Mentions(r'.msg, chdir[1])
           /\ ~Globbed(events') /\ QuietLog(events')
           /\ fs' = fs]_vars

C15_Witness ==
    /\ pc = "done"
    /\ IsFailed(r)
    /\ r.msg # <<>>
    /\ r.msg[1] = "Unable to change directory before execution: "
    /\ ChangedDir(events)
    /\ Truthy(creates) /\ Watching

-----------------------------------------------------------------------------
(* C12 *)

\* the filesystem the invocation in progress found when it began
Found == task[1].found

\* the paths examine_file(p) stats in the filesystem f
RECURSIVE ChainOf(_, _, _)
ChainOf(f, p, fuel) ==
    IF Lookup(f, p).type = "S_IFLNK" /\ fuel > 0
    THEN {p} \cup ChainOf(f, get_symlink_destination_absolute(f, p), fuel - 1)
    ELSE {p}

\* nothing examine_file(path) reads has been changed since the invocation began
Untouched(path) ==
    \A q \in ChainOf(Found, Abspath(path), MaxChain) : Lookup(fs, q) = Lookup(Found, q)

\* C12: once both snapshots of the watched paths are taken, a watched path
\* of which nothing was changed in between (absent, regular file, directory
\* or symlink chain) has two equal snapshots and no DiffRecord; and the
\* result of an invocation that changed none of its watched paths has
\* changed false and an empty diff list.
C12_RoundTrip ==
    (task # None /\ Watching /\ pc \in {"diff", "finish", "done"} /\ HasKey(r, "diff")) =>
        /\ \A path \in Watched :
              Untouched(path) =>
                  /\ DictEq(path2diff[path].before, path2diff[path].after)
                  /\ RecordsFor(path) = {}
        /\ (pc = "done" /\ \A path \in Watched : Untouched(path)) =>
              /\ r.changed = FALSE
              /\ r.diff = <<>>

C12_Witness ==
    /\ task # None
    /\ pc = "done"
    /\ Launched(events)
    /\ Watching
    /\ fs # Found
    /\ \A path \in Watched :
          /\ Untouched(path)
          /\ HasKey(path2diff[path].after, "content")
          /\ Len(path2diff[path].after.stat) > 1
    /\ r.diff = <<>>

-----------------------------------------------------------------------------
(* C16, C17 *)

\* the task as written gives a string form of the command and an argv list
BothSupplied ==
    /\ task # None
    /\ (Truthy(task[1].raw) \/ task[1].cmd # None)
    /\ Truthy(task[1].argv)

\* C16: a task written with a string form of the command (free form or cmd)
\* and with an argv list reaches the module with the argv it was written
\* with, launches nothing, and ends in the failure 'only command or argv can
\* be given, not both'.
C16_BothFormsRejected ==
    BothSupplied =>
        /\ pc # "action" => argv = task[1].argv
        /\ ~Launched(events)
        /\ pc \in {"action", "validate", "done"}
        /\ pc = "done" =>
              /\ IsFailed(r)
              /\ r.msg = <<"only command or argv can be given, not both">>

\* the invocation in progress is a later one of a task whose invocation
\* before it launched the command in normal mode, and the path named by
\* creates was there when that invocation had ended
CreatedByEarlierRun ==
    /\ task # None
    /\ task[1].earlier # <<>>
    /\ ~check_mode
    /\ Launched(Last(task[1].earlier))
    /\ Truthy(creates)
    /\ glob(Found, creates[1]) # {}

\* C17: when a task with a creates guard ran its command in normal mode and
\* the guarded path exists afterwards, the next invocation of the task,
\* with the same arguments and the filesystem as the first one left it,
\* launches nothing, takes no snapshot, and returns the skip result: not
\* failed, changed false, rc 0.
C17_SecondRunSkips ==
    CreatedByEarlierRun =>
        /\ pc \in {"action", "validate", "chdir", "gate", "done"}
        /\ QuietLog(events)
        /\ fs = Found
        /\ pc = "done" =>
              /\ outcome = "exit_json"
              /\ ~IsFailed(r)
              /\ r.changed = FALSE
              /\ r.rc = Some(0)
              /\ Mentions(r.msg, creates[1] \o <<"' exists">>)

C17_Witness ==
    /\ CreatedByEarlierRun
    /\ pc = "done"
    /\ r.rc = Some(0)
    /\ Watching
    /\ glob(fs, Abs("a")) # {}
    /\ creates = Some(Abs("a"))

-----------------------------------------------------------------------------
(* C18, C19, C20 *)

\* this step is the return of a call of examine_file to main()
SnapshotReturned ==
    /\ pc \in {"before", "after"}
    /\ pc' # "crashed"
    /\ idx' # idx \/ pc' # pc

\* the path that call was made for, and the value it returns
ExaminedPath == modifies[1][idx]
ReturnedSnapshot ==
    IF pc = "before"
    THEN path2diff'[ExaminedPath].before
    ELSE path2diff'[ExaminedPath].after

\* C18: examine_file returns the absent value exactly when the path it was
\* called for does not exist; for a path that is a symlink, a dangling one
\* included, it returns a snapshot that is not the absent value.
C18_AbsentIffMissing ==
    [][SnapshotReturned =>
         (IsAbsent(ReturnedSnapshot) <=> ~Lexists(fs, Abspath(ExaminedPath)))]_vars

\* the call of examine_file in progress is about to raise: its chain comes
\* back to a path of seen_paths, or reading the content fails otherwise than
\* with FileNotFoundError
FatalAhead ==
    /\ pc \in {"before", "after"}
    /\ ex.phase = "loop"
    /\ IF Last(ex.output).file_type = "symlink"
       THEN /\ Len(ex.output) < MaxChain
            /\ Contains(ex.seen_paths, get_symlink_destination_absolute(fs, ex.path))
       ELSE ReadContent(fs, ex.arg, ex.output[1].file_type).raise
                \notin {"", "FileNotFoundError"}

\* C19: when a snapshot of a watched path raises, the invocation ends there
\* with the exception: no result is returned, with a partial diff list or
\* without, nothing happens afterwards, and when the snapshot was a before
\* snapshot the program has not been and is not launched.
C19_SnapshotErrorAborts ==
    [][/\ FatalAhead =>
            /\ pc' = "crashed"
            /\ outcome' \notin {"running", "exit_json", "fail_json"}
            /\ r' = r
            /\ pc = "before" => ~Launched(events')
       /\ pc # "crashed"]_vars

C19_Witness ==
    /\ pc = "crashed"
    /\ ex.phase = "raised"
    /\ outcome = "IsADirectoryError"
    /\ Launched(events)
    /\ HasKey(r, "diff")

\* C20: the stat chain of every snapshot examine_file returns that is not
\* the absent value starts at the path examined, holds no path twice, has a
\* symlink in every entry but the last and none in the last, and is longer
\* than one entry only when the path examined is a symlink.
C20_ChainWellFormed ==
    [][(SnapshotReturned /\ ~IsAbsent(ReturnedSnapshot)) =>
         LET chain == ReturnedSnapshot.stat IN
         /\ Len(chain) >= 1
         /\ chain[1].path = Abspath(ExaminedPath)
         /\ NoRepeat([k \in 1..Len(chain) |-> chain[k].path])
         /\ \A k \in 1..(Len(chain) - 1) : chain[k].file_type = "symlink"
         /\ Last(chain).file_type # "symlink"
         /\ Len(chain) > 1 => Lookup(fs, Abspath(ExaminedPath)).type = "S_IFLNK"]_vars

C20_Witness ==
    /\ pc = "exec"
    /\ Watching
    /\ \E path \in Watched :
          /\ HasKey(path2diff[path].before, "content")
          /\ Len(path2diff[path].before.stat) = 3

-----------------------------------------------------------------------------
(* C21 *)

\* the positions in the log of the entries equal to e
Positions(log, e) == {k \in 1..Len(log) : log[k] = e}
\* the positions of the snapshots of one phase
SnapshotsOf(log, phase) ==
    {k \in 1..Len(log) : log[k][1] = "examine" /\ log[k][2] = phase}

\* C21: a returned result has start, end and delta set when the program was
\* launched and has all three unset when it was not (validation failure,
\* failed directory change, gate skip, check mode); start is the time read
\* after every before snapshot and right before the launch, end the time
\* read right after it and before every after snapshot.
C21_TimesBracketLaunch ==
    (pc = "done") =>
        /\ Launched(events) =>
              /\ r.start # None /\ r.end # None /\ r.delta # None
              /\ events[r.start[1].v] = <<"now">>
              /\ events[r.start[1].v + 1] = <<"run_command">>
              /\ r.end[1].v = r.start[1].v + 2
              /\ events[r.end[1].v] = <<"now">>
              /\ \A k \in SnapshotsOf(events, "before") : k < r.start[1].v
              /\ \A k \in SnapshotsOf(events, "after") : k > r.end[1].v
        /\ ~Launched(events) =>
              /\ r.start = None /\ r.end = None /\ r.delta = None
              /\ Positions(events, <<"now">>) = {}

C21_Witness ==
    /\ pc = "done"
    /\ Launched(events)
    /\ r.delta # None
    /\ SnapshotsOf(events, "before") # {}
    /\ SnapshotsOf(events, "after") # {}
    /\ ChangedDir(events)

-----------------------------------------------------------------------------
(* C22 *)

\* the place of a position of main() in the order of its steps
StepRank(p) ==
    CASE p = "action" -> 0
      [] p = "validate" -> 1
      [] p = "chdir" -> 2
      [] p = "gate" -> 3
      [] p = "before" -> 4
      [] p = "exec" -> 5
      [] p = "after" -> 6
      [] p = "diff" -> 7
      [] p = "finish" -> 8
      [] OTHER -> 9

\* the place of a log entry in that order
EventRank(e) ==
    CASE e = <<"chdir">> -> 2
      [] e[1] = "glob" -> 3
      [] e[1] = "examine" /\ e[2] = "before" -> 4
      [] e[1] = "examine" -> 6
      [] OTHER -> 5

\* the paths snapshotted in one phase, in the order of the log
RECURSIVE PathsOf(_, _)
PathsOf(log, phase) ==
    IF log = <<>> THEN <<>>
    ELSE IF Head(log)[1] = "examine" /\ Head(log)[2] = phase
         THEN <<SubSeq(Head(log), 3, Len(Head(log)))>> \o PathsOf(Tail(log), phase)
    ELSE PathsOf(Tail(log), phase)

IsPrefix(s, t) == Len(s) <= Len(t) /\ s = SubSeq(t, 1, Len(s))

\* the watched-path list, empty when none was given
WatchList == IF Watching THEN modifies[1] ELSE <<>>

\* the log `log` of an invocation that has come to position p is in order
InOrder(p, log) ==
    LET befores == PathsOf(log, "before")
        afters == PathsOf(log, "after")
    IN
    /\ \A k \in 1..(Len(log) - 1) : EventRank(log[k]) <= EventRank(log[k + 1])
    /\ log # <<>> => EventRank(Last(log)) <= StepRank(p)
    /\ IsPrefix(befores, WatchList)
    /\ IsPrefix(afters, WatchList)
    /\ (p \in {"exec", "after", "diff", "finish"} \/ Launched(log) \/ afters # <<>>)
          => befores = WatchList
    /\ afters # <<>> => (check_mode \/ log[Len(log) - Len(afters)] = <<"now">>)
    /\ p \in {"diff", "finish"} => afters = WatchList

\* C22: the steps of an invocation come in the one order validation,
\* directory change, gate, before snapshots, execution, after snapshots,
\* diff, result, and none is gone back to: the globs of the gate come before
\* every snapshot, the launch comes after the before snapshot of every
\* watched path, the after snapshots come after the command has ended, and
\* the entries of the watched-path list are snapshotted one by one in the
\* order of the list, each once before and once after.
C22_StepsInOrder ==
    [][/\ StepRank(pc') >= StepRank(pc)
       /\ InOrder(pc', events')
       /\ (pc' = "done" /\ HasKey(r', "diff")) =>
             PathsOf(events', "after") = WatchList]_vars

C22_Witness ==
    /\ pc = "done"
    /\ Launched(events)
    /\ Globbed(events)
    /\ ChangedDir(events)
    /\ Len(WatchList) = 2
    /\ PathsOf(events, "after") = WatchList

====
